---- MODULE Spec2Model ----
(***************************************************************************)
(* A model of wget's IRI support (src/iri.c): the charset parser, the      *)
(* growing-buffer converter do_conversion and its callers locale_to_utf8,  *)
(* remote_to_utf8 and idn_encode, and the encoding registry.               *)
(*                                                                         *)
(* C strings are sequences of character codes without their terminator;    *)
(* memory blocks are sequences of cells holding a byte, NUL, or the        *)
(* indeterminate value of freshly allocated memory.                        *)
(***************************************************************************)
EXTENDS Integers, Sequences, FiniteSets, TLC

VARIABLES
    \* ---- charset parser (pure function, specification SpecParse) ----
    p_str,               \* argument of parse_charset (NULL or a string)
    p_ret,               \* its return value (NULL or a string)
    p_pc,                \* "call" before the call, "done" after
    \* ---- configuration and process-wide state ----
    opt_locale,          \* opt.locale
    opt_encoding_remote, \* opt.encoding_remote
    current,             \* char *current
    remote,              \* char *remote
    locale2utf8,         \* static iconv_t locale2utf8 (NoCd when NULL)
    cds,                 \* the conversion descriptors that are open
    \* ---- the call in progress ----
    pc,                  \* control point
    frames,              \* call chain, outermost first
    str,                 \* the string under conversion
    cd,                  \* descriptor handed to do_conversion
    dc,                  \* do_conversion's locals
    new,                 \* the caller's `new`, which do_conversion's *out aliases
    blocks,              \* the blocks allocated since the call began
    ret,                 \* what the last finished call returned
    \* ---- history of the call in progress ----
    emitted,             \* output bytes emitted by do_conversion, in order
    hist                 \* events of the call: frees, opens, closes, ...

parseVars == <<p_str, p_ret, p_pc>>
cfgVars   == <<opt_locale, opt_encoding_remote>>
regVars   == <<current, remote>>
cdVars    == <<locale2utf8, cds>>
callVars  == <<pc, frames, str, cd, dc, new, blocks, ret, emitted, hist>>
vars      == <<parseVars, cfgVars, regVars, cdVars, callVars>>

----------------------------------------------------------------------------
(* Bounds of the model *)

\* longest string handed to a conversion
MaxLen == 2
\* longest text after "charset=" handed to parse_charset
MaxTail == 2
\* width in bits of the model's size_t
SizeBits == 6
\* longest string handed to do_conversion when it is studied on its own
MaxLoopLen == 4

SizeMod == 2 ^ SizeBits

----------------------------------------------------------------------------
(* Characters and C strings *)

\* A null char pointer; no C string contains the code -1.
NULL == <<-1>>
\* The terminating byte, and the indeterminate content of malloc'ed memory.
NUL == 0
Indet == -2

c_isspace(c) == c \in {32, 9, 10, 11, 12, 13}
c_isascii(c) == c >= 0 /\ c < 128
c_tolower(c) == IF c >= 65 /\ c <= 90 THEN c + 32 ELSE c

LowerStr(s) == [i \in 1..Len(s) |-> c_tolower(s[i])]

\* strcasecmp (a, b) == 0
strcaseeq(a, b) == LowerStr(a) = LowerStr(b)

\* "charset=", "utf-8", "UTF-8"
CharsetKey == <<99, 104, 97, 114, 115, 101, 116, 61>>
utf8_lc    == <<117, 116, 102, 45, 56>>
UTF8       == <<85, 84, 70, 45, 56>>
\* "SJIS", an encoding iconv supports; "X", one it does not
SJIS       == <<83, 74, 73, 83>>
BOGUS      == <<88>>

\* strcasestr (s, needle): the 1-based index of the first match, 0 if none
strcasestr(s, needle) ==
    LET n == Len(needle)
        hits == {i \in 1..(Len(s) - n + 1) :
                    strcaseeq(SubSeq(s, i, i + n - 1), needle)}
    IN  IF hits = {} THEN 0
        ELSE CHOOSE i \in hits : \A j \in hits : i <= j

\* The check without its c_isascii half
check_encoding_name_ws(encoding) ==
    \A i \in 1..Len(encoding) : ~c_isspace(encoding[i])

\* Basic check of an encoding name.
check_encoding_name(encoding) ==
    \A i \in 1..Len(encoding) :
        c_isascii(encoding[i]) /\ ~c_isspace(encoding[i])

\* The loop of parse_charset: the index of the first whitespace at or after
\* `from`, or Len (s) + 1.
RECURSIVE TokenEnd(_, _)
TokenEnd(s, from) ==
    IF from > Len(s) \/ c_isspace(s[from]) THEN from
    ELSE TokenEnd(s, from + 1)

\* parse_charset: the encoding named after "charset=", or NULL.
parse_charset(s) ==
    IF s = NULL \/ s = <<>> THEN NULL
    ELSE LET at == strcasestr(s, CharsetKey)
         IN  IF at = 0 THEN NULL
             ELSE LET beg     == at + 8
                      end     == TokenEnd(s, beg)
                      charset == SubSeq(s, beg, end - 1)
                  IN  IF ~check_encoding_name(charset) THEN NULL
                      ELSE charset

----------------------------------------------------------------------------
(* The external capabilities: the transcoder (iconv), the locale inquiry   *)
(* and the IDNA library, modelled from the interface the code relies on.   *)

\* A conversion descriptor: which cache it serves and its source encoding.
NoCd == [kind |-> "none", src |-> <<>>]
Cd(kind, src) == [kind |-> kind, src |-> src]

\* iconv_open ("UTF-8", r) succeeds for the encodings the library knows.
IconvSupports(r) == strcaseeq(r, UTF8) \/ r = SJIS

\* The UTF-8 form of one source character, <<>> when the byte is not valid
\* in the source encoding.  ASCII is shared; in SJIS the byte 0xB1 is a
\* half-width katakana whose UTF-8 form has three bytes (EF BD B1); a lone
\* 0xB1 or 0xFF is invalid in UTF-8, and 0xFF in SJIS.
Transcode(src, c) ==
    IF c_isascii(c) THEN <<c>>
    ELSE IF src = SJIS /\ c = 177 THEN <<239, 189, 177>>
    ELSE <<>>

\* One call of iconv (cd, &in, &inlen, out, &outlen): characters are
\* converted in order until the input is used up ("ok"), a byte is invalid
\* ("EILSEQ"), the next character does not fit into `room` ("E2BIG"), or the
\* library fails for another reason after `fault` characters ("EOTHER").
RECURSIVE IconvRun(_, _, _, _, _, _)
IconvRun(src, inp, room, fault, consumed, written) ==
    IF fault = 0
    THEN [status |-> "EOTHER", consumed |-> consumed, written |-> written]
    ELSE IF inp = <<>>
    THEN [status |-> "ok", consumed |-> consumed, written |-> written]
    ELSE LET t == Transcode(src, Head(inp))
         IN  IF t = <<>>
             THEN [status |-> "EILSEQ", consumed |-> consumed,
                   written |-> written]
             ELSE IF Len(t) > room
             THEN [status |-> "E2BIG", consumed |-> consumed,
                   written |-> written]
             ELSE IconvRun(src, Tail(inp), room - Len(t), fault - 1,
                           consumed + 1, written \o t)

iconv(h, inp, room, fault) == IconvRun(h.src, inp, room, fault, 0, <<>>)

\* stringprep_locale_charset (): what the environment reports.
FindLocale == {NULL, UTF8, SJIS, BOGUS}

\* idna_to_ascii_8z: the ASCII-compatible form of a UTF-8 host name.  ASCII
\* names are lower-cased; others get the "xn--" prefix and keep their ASCII
\* characters.
ToAscii(host) ==
    IF \A i \in 1..Len(host) : c_isascii(host[i]) THEN LowerStr(host)
    ELSE <<120, 110, 45, 45>> \o SelectSeq(LowerStr(host), c_isascii)

----------------------------------------------------------------------------
(* Memory *)

\* Pointers: a block and an offset into it.  Block 0 is the null pointer,
\* block -1 the caller's input string, block -2 an uninitialised pointer.
Ptr(b, o) == [blk |-> b, off |-> o]
NullPtr == Ptr(0, 0)
StrPtr  == Ptr(-1, 0)
WildPtr == Ptr(-2, 0)

IsHeap(p, blks) == p.blk >= 1 /\ p.blk <= Len(blks)

\* xmalloc (n): a live block of n indeterminate bytes
Fresh(n) == [live |-> TRUE, cells |-> [i \in 1..n |-> Indet]]
xmalloc(blks, n) == Append(blks, Fresh(n))

\* Storing bytes at an offset of a block; bytes outside the block are lost.
WriteAt(cells, off, bytes) ==
    [i \in 1..Len(cells) |->
        IF i > off /\ i <= off + Len(bytes) THEN bytes[i - off] ELSE cells[i]]
InBounds(cells, off, n) == off >= 0 /\ off + n <= Len(cells)

\* xfree (p) is defined only for the base address of a live block.
ValidFree(p, blks) == IsHeap(p, blks) /\ p.off = 0 /\ blks[p.blk].live
xfree(blks, p) ==
    IF ValidFree(p, blks)
    THEN [blks EXCEPT ![p.blk] = [live |-> FALSE, cells |-> <<>>]]
    ELSE blks

\* The C string that starts at cell i, or NULL when an indeterminate byte or
\* the end of the block comes before any terminator.
RECURSIVE CStrFrom(_, _, _)
CStrFrom(cells, i, acc) ==
    IF i > Len(cells) \/ i < 1 THEN NULL
    ELSE IF cells[i] = Indet THEN NULL
    ELSE IF cells[i] = NUL THEN acc
    ELSE CStrFrom(cells, i + 1, Append(acc, cells[i]))

CStrAt(p, blks) ==
    IF IsHeap(p, blks) /\ blks[p.blk].live
    THEN CStrFrom(blks[p.blk].cells, p.off + 1, <<>>)
    ELSE NULL

\* The results strcmp (s, p) == 0 can have: one when the comparison is
\* decided by initialised bytes of the block, either when it reads an
\* indeterminate byte or runs off the block.
RECURSIVE StrcmpFrom(_, _, _, _)
StrcmpFrom(s, cells, off, i) ==
    LET a == IF i < Len(s) THEN s[i + 1] ELSE NUL
    IN  IF off + i >= Len(cells) THEN BOOLEAN
        ELSE LET b == cells[off + i + 1]
             IN  IF b = Indet THEN BOOLEAN
                 ELSE IF a # b THEN {FALSE}
                 ELSE IF a = NUL THEN {TRUE}
                 ELSE StrcmpFrom(s, cells, off, i + 1)

strcmp_eq(s, p, blks) ==
    IF IsHeap(p, blks) /\ blks[p.blk].live
    THEN StrcmpFrom(s, blks[p.blk].cells, p.off, 0)
    ELSE BOOLEAN

----------------------------------------------------------------------------
(* Calls, returns and the history of a call *)

Ev(e, p, ok, what) == [ev |-> e, p |-> p, ok |-> ok, what |-> what]
UB(what, p) == Ev("ub", p, FALSE, what)

NoRet == [fn |-> "none", ok |-> FALSE, ptr |-> NullPtr]
NoDc  == [inpos |-> 0, inlen |-> 0, outlen |-> 0, len |-> 0, done |-> 0,
          s |-> 0, invalid |-> 0, tooshort |-> 0]

Last(fr) == fr[Len(fr)]

\* The function at the end of the chain `fr` returns: to the caller of the
\* operation when it is the outermost, else into the function above it.
Return(fr, ok, ptr) ==
    /\ ret' = [fn |-> Last(fr), ok |-> ok, ptr |-> ptr]
    /\ frames' = SubSeq(fr, 1, Len(fr) - 1)
    /\ pc' = IF Len(fr) = 1 THEN "returned"
             ELSE IF Last(fr) = "do_conversion" THEN "dc_ret"
             ELSE "idn_resume"

\* The strings the callers convert: ASCII 'a', 0xB1 and 0xFF.
InputBytes == {97, 177, 255}
SeqsUpTo(S, n) == UNION {[1..k -> S] : k \in 0..n}
Inputs == SeqsUpTo(InputBytes, MaxLen)

\* The values the callers store in the registry.
RegArgs == {NULL, UTF8, SJIS}

----------------------------------------------------------------------------
(* Locale transcoder *)

\* open_locale_to_utf8 (), and the caller's test of its result.  `cached`
\* is the test of the cached descriptor.
OpenLocale(cached) ==
    /\ pc = "open_locale"
    /\ \E found \in (IF opt_locale = NULL /\ ~cached THEN FindLocale
                     ELSE {NULL}) :
        LET loc == IF opt_locale = NULL THEN found ELSE opt_locale
            h   == Cd("locale", loc)
            ok  == cached \/ (loc # NULL /\ IconvSupports(loc))
        IN  /\ opt_locale' = IF cached THEN opt_locale ELSE loc
            /\ locale2utf8' = IF cached THEN locale2utf8
                              ELSE IF ok THEN h ELSE NoCd
            /\ cds' = IF ~cached /\ ok THEN cds \cup {h} ELSE cds
            /\ hist' = IF ~cached /\ loc # NULL
                       THEN Append(hist, Ev("iconv_open", NullPtr, ok, "locale"))
                       ELSE hist
            /\ IF ok
               THEN /\ cd' = locale2utf8'
                    /\ pc' = "do_conversion"
                    /\ UNCHANGED <<frames, ret>>
               ELSE /\ Return(frames, TRUE, StrPtr)
                    /\ UNCHANGED cd
    /\ UNCHANGED <<parseVars, opt_encoding_remote, regVars, str, dc, new,
                   blocks, emitted>>

\* open_locale_to_utf8 without its test of the cached descriptor
open_locale_to_utf8_reopen == OpenLocale(FALSE)

open_locale_to_utf8 == OpenLocale(locale2utf8 # NoCd)

\* locale_to_utf8 (s), up to the call of open_locale_to_utf8.  Comparing an
\* unset opt.locale dereferences a null pointer.
locale_to_utf8(s) ==
    /\ pc = "idle"
    /\ \E isutf8 \in (IF opt_locale = NULL THEN BOOLEAN
                      ELSE {strcaseeq(opt_locale, utf8_lc)}) :
        /\ hist' = IF opt_locale = NULL
                   THEN <<UB("null_deref", NullPtr)>> ELSE <<>>
        /\ IF isutf8
           THEN Return(<<"locale_to_utf8">>, TRUE, StrPtr)
           ELSE /\ pc' = "open_locale"
                /\ frames' = <<"locale_to_utf8">>
                /\ ret' = NoRet
    /\ str' = s
    /\ cd' = NoCd
    /\ dc' = NoDc
    /\ new' = WildPtr
    /\ blocks' = <<>>
    /\ emitted' = <<>>
    /\ UNCHANGED <<parseVars, cfgVars, regVars, cdVars>>

\* locale_to_utf8 after do_conversion has returned
locale_to_utf8_ret ==
    /\ pc = "dc_ret"
    /\ Last(frames) = "locale_to_utf8"
    /\ IF ret.ok THEN Return(frames, TRUE, new)
       ELSE Return(frames, TRUE, StrPtr)
    /\ UNCHANGED <<parseVars, cfgVars, regVars, cdVars, str, cd, dc, new,
                   blocks, emitted, hist>>

----------------------------------------------------------------------------
(* Growing-buffer converter *)

\* do_conversion: the declarations and the first allocation
do_conversion_enter ==
    /\ pc = "do_conversion"
    /\ LET inlen  == Len(str)
           outlen == (inlen * 2) % SizeMod
           blks   == xmalloc(blocks, (outlen + 1) % SizeMod)
       IN  /\ blocks' = blks
           /\ new' = Ptr(Len(blks), 0)
           /\ dc' = [inpos |-> 0, inlen |-> inlen, outlen |-> outlen,
                     len |-> outlen, done |-> 0, s |-> Len(blks),
                     invalid |-> 0, tooshort |-> 0]
           /\ hist' = Append(hist, Ev("xmalloc", Ptr(Len(blks), 0), TRUE, ""))
    /\ frames' = Append(frames, "do_conversion")
    /\ pc' = "dc_loop"
    /\ UNCHANGED <<parseVars, cfgVars, regVars, cdVars, str, cd, ret, emitted>>

\* The offset at which do_conversion stores the terminator.
TermOffset(len, outlen, done) == (len - outlen - done) % SizeMod

\* How far the E2BIG branch carries the old buffer over, and where writing
\* resumes in the new one.
Carried(len) == len

\* The E2BIG branch without the room for the remaining input
Grown_noroom(done, inlen) == done

\* The room the E2BIG branch offers to the next call of iconv, which is also
\* the capacity it allocates.
Grown(done, inlen) == (done + inlen * 2) % SizeMod

\* The byte the EINVAL/EILSEQ branch stores at the output cursor: *in.
PassByte(s, inpos) == s[inpos + 1]

\* E2BIG taken for an error like any other
ErrnoBranch_nogrow(status) ==
    CASE status = "ok" -> "done"
      [] status = "EILSEQ" -> "passthrough"
      [] OTHER -> "fail"

\* The branch of the loop taken on iconv's result and errno.
ErrnoBranch(status) ==
    CASE status = "ok" -> "done"
      [] status = "EILSEQ" -> "passthrough"
      [] status = "E2BIG" -> "grow"
      [] OTHER -> "fail"

\* One turn of do_conversion's loop: the call of iconv and the branch taken
\* on its result.
do_conversion_step(fault) ==
    /\ pc = "dc_loop"
    /\ LET rest   == SubSeq(str, dc.inpos + 1, Len(str))
           r      == iconv(cd, rest, dc.outlen, fault)
           n      == Len(r.written)
           inpos  == dc.inpos + r.consumed
           inlen  == dc.inlen - r.consumed
           outlen == dc.outlen - n
           cells  == blocks[new.blk].cells
           cells1 == WriteAt(cells, new.off, r.written)
           blks1  == [blocks EXCEPT ![new.blk].cells = cells1]
           out    == Ptr(new.blk, new.off + n)
           hist1  == IF InBounds(cells, new.off, n) THEN hist
                     ELSE Append(hist, UB("oob_write", new))
           br     == ErrnoBranch(r.status)
       IN  CASE br = "done" ->
                 LET t  == TermOffset(dc.len, outlen, dc.done)
                     sc == blks1[dc.s].cells
                 IN  /\ blocks' = [blks1 EXCEPT
                                     ![dc.s].cells = WriteAt(sc, t, <<NUL>>)]
                     /\ new' = Ptr(dc.s, 0)
                     /\ dc' = [dc EXCEPT !.inpos = inpos, !.inlen = inlen,
                                         !.outlen = outlen]
                     /\ emitted' = emitted \o r.written
                     /\ hist' = (IF InBounds(sc, t, 1) THEN hist1
                                 ELSE Append(hist1, UB("oob_write", Ptr(dc.s, t))))
                                \o <<Ev("terminate", Ptr(dc.s, t), TRUE, "")>>
                     /\ Return(frames, TRUE, Ptr(dc.s, 0))
            [] br = "passthrough" ->
                 /\ blocks' = [blks1 EXCEPT ![out.blk].cells =
                                 WriteAt(cells1, out.off,
                                         <<PassByte(str, inpos)>>)]
                 /\ new' = Ptr(out.blk, out.off + 1)
                 /\ dc' = [dc EXCEPT !.inpos = inpos + 1,
                                     !.inlen = (inlen - 1) % SizeMod,
                                     !.outlen = (outlen - 1) % SizeMod,
                                     !.invalid = dc.invalid + 1]
                 /\ emitted' = emitted \o r.written \o <<PassByte(str, inpos)>>
                 /\ hist' = IF InBounds(cells1, out.off, 1) THEN hist1
                            ELSE Append(hist1, UB("oob_write", out))
                 /\ UNCHANGED <<pc, frames, ret>>
            [] br = "grow" ->
                 LET done == Carried(dc.len)
                     grown == Grown(done, inlen)
                     old  == blks1[dc.s].cells
                     fresh == WriteAt(Fresh((grown + 1) % SizeMod).cells, 0,
                                      SubSeq(old, 1, done))
                     blks2 == Append(blks1, [live |-> TRUE, cells |-> fresh])
                 IN  /\ blocks' = xfree(blks2, Ptr(dc.s, 0))
                     /\ new' = Ptr(Len(blks2), done)
                     /\ dc' = [dc EXCEPT !.inpos = inpos, !.inlen = inlen,
                                         !.outlen = grown, !.len = grown,
                                         !.done = done, !.s = Len(blks2),
                                         !.tooshort = dc.tooshort + 1]
                     /\ emitted' = emitted \o r.written
                     /\ hist' = hist1 \o
                           <<Ev("xmalloc", Ptr(Len(blks2), 0), TRUE, ""),
                             Ev("xfree", Ptr(dc.s, 0),
                                ValidFree(Ptr(dc.s, 0), blks2), "")>>
                     /\ UNCHANGED <<pc, frames, ret>>
            [] OTHER ->
                 /\ blocks' = blks1
                 /\ new' = out
                 /\ dc' = [dc EXCEPT !.inpos = inpos, !.inlen = inlen,
                                     !.outlen = outlen]
                 /\ emitted' = emitted \o r.written
                 /\ hist' = Append(hist1, Ev("errno", out, TRUE, r.status))
                 /\ Return(frames, FALSE, out)
    /\ UNCHANGED <<parseVars, cfgVars, regVars, cdVars, str, cd>>

----------------------------------------------------------------------------
(* Remote-to-UTF-8 transcoder *)

\* The registry consulted through `remote` instead of `current`
SourceEncoding_remote == IF opt_encoding_remote # NULL THEN opt_encoding_remote
                         ELSE remote

\* The encoding remote_to_utf8 converts from: the override, else `current`.
SourceEncoding == IF opt_encoding_remote # NULL THEN opt_encoding_remote
                  ELSE current

\* remote_to_utf8 (s, &new), called along the chain `fr`, up to the call of
\* do_conversion.
RemoteBegin(fr, s) ==
    /\ str' = s
    /\ dc' = NoDc
    /\ new' = WildPtr
    /\ blocks' = <<>>
    /\ emitted' = <<>>
    /\ LET r == SourceEncoding
       IN  IF r = NULL
           THEN /\ hist' = <<>>
                /\ Return(fr, FALSE, WildPtr)
                /\ cd' = NoCd
                /\ cds' = cds
           ELSE IF ~IconvSupports(r)
           THEN /\ hist' = <<Ev("iconv_open", NullPtr, FALSE, "remote")>>
                /\ Return(fr, FALSE, WildPtr)
                /\ cd' = NoCd
                /\ cds' = cds
           ELSE /\ hist' = <<Ev("iconv_open", NullPtr, TRUE, "remote")>>
                /\ cd' = Cd("remote", r)
                /\ cds' = cds \cup {Cd("remote", r)}
                /\ pc' = "do_conversion"
                /\ frames' = fr
                /\ ret' = NoRet
    /\ UNCHANGED <<parseVars, cfgVars, regVars, locale2utf8>>

remote_to_utf8(s) ==
    /\ pc = "idle"
    /\ RemoteBegin(<<"remote_to_utf8">>, s)

\* iconv_close (cd) left out
iconv_close_leak(open, h) == open

\* iconv_close (cd)
iconv_close(open, h) == open \ {h}

\* remote_to_utf8 after do_conversion has returned: the descriptor is
\* closed, the result compared with the input and released when equal.
remote_to_utf8_ret ==
    /\ pc = "dc_ret"
    /\ Last(frames) = "remote_to_utf8"
    /\ \E eq \in strcmp_eq(str, new, blocks) :
        /\ cds' = iconv_close(cds, cd)
        /\ hist' = hist
              \o <<Ev("iconv_close", NullPtr, cd \in cds, "remote")>>
              \o <<Ev("strcmp", new, CStrAt(new, blocks) # NULL, "")>>
              \o (IF eq THEN <<Ev("xfree", new, ValidFree(new, blocks), "")>>
                  ELSE <<>>)
        /\ blocks' = IF eq THEN xfree(blocks, new) ELSE blocks
        /\ Return(frames, IF eq THEN FALSE ELSE ret.ok, new)
    /\ UNCHANGED <<parseVars, cfgVars, regVars, locale2utf8, str, cd, dc, new,
                   emitted>>

----------------------------------------------------------------------------
(* IDN codec *)

\* idna_to_ascii_8z (host, &new, 0) and idn_encode's return.  `host` is the
\* string read at the host pointer, NULL when what is read is indeterminate.
Idna(fr, host, blks, h) ==
    \E ok \in BOOLEAN :
        IF ok
        THEN LET out  == IF host = NULL THEN <<Indet>>
                         ELSE ToAscii(host) \o <<NUL>>
                 blks1 == Append(blks, [live |-> TRUE, cells |-> out])
             IN  /\ blocks' = blks1
                 /\ new' = Ptr(Len(blks1), 0)
                 /\ hist' = Append(h, Ev("xmalloc", Ptr(Len(blks1), 0), TRUE,
                                         "idna"))
                 /\ Return(fr, TRUE, Ptr(Len(blks1), 0))
        ELSE /\ blocks' = blks
             /\ new' = WildPtr
             /\ hist' = h
             /\ Return(fr, FALSE, NullPtr)

idn_encode(host, utf8_encoded) ==
    /\ pc = "idle"
    /\ IF utf8_encoded
       THEN /\ Idna(<<"idn_encode">>, host, <<>>, <<>>)
            /\ str' = host
            /\ dc' = NoDc
            /\ cd' = NoCd
            /\ emitted' = <<>>
            /\ UNCHANGED <<parseVars, cfgVars, regVars, cdVars>>
       ELSE RemoteBegin(<<"idn_encode", "remote_to_utf8">>, host)

\* idn_encode after remote_to_utf8 has returned
idn_encode_resume ==
    /\ pc = "idn_resume"
    /\ IF ~ret.ok
       THEN /\ Return(frames, FALSE, NullPtr)
            /\ UNCHANGED <<blocks, new, hist>>
       ELSE Idna(frames, CStrAt(new, blocks), blocks, hist)
    /\ UNCHANGED <<parseVars, cfgVars, regVars, cdVars, str, cd, dc, emitted>>

----------------------------------------------------------------------------
(* Encoding registry *)

\* A registry operation: it runs to its return in one step.
RegistryCall(fn, h) ==
    /\ pc = "idle"
    /\ pc' = "returned"
    /\ frames' = <<>>
    /\ str' = <<>>
    /\ cd' = NoCd
    /\ dc' = NoDc
    /\ new' = WildPtr
    /\ blocks' = <<>>
    /\ emitted' = <<>>
    /\ hist' = h
    /\ ret' = [fn |-> fn, ok |-> TRUE, ptr |-> NullPtr]
    /\ UNCHANGED <<parseVars, cfgVars, cdVars>>

\* The getters hand out the registry's own string, not a copy: the pointer
\* stays tied to the field it came from.
get_remote_charset == <<-3>>
get_current_charset == <<-4>>

\* The string an argument designates when the call is made.
ArgString(charset) ==
    CASE charset = get_current_charset -> current
      [] charset = get_remote_charset -> remote
      [] OTHER -> charset

\* What a read of released memory may find in place of a name.
Stale == <<Indet>>

\* xfree (field) followed by xstrdup (charset): when charset is the field's own
\* string, xstrdup reads the block that was just released.
ReadsReleased(charset, getter, field) == charset = getter /\ field # NULL
Restored(charset, getter, field) ==
    IF ReadsReleased(charset, getter, field) THEN {field, Stale}
    ELSE {ArgString(charset)}
SetterHist(charset, getter, field) ==
    IF ReadsReleased(charset, getter, field)
    THEN <<UB("use_after_free", NullPtr)>> ELSE <<>>

set_current_charset(charset) ==
    /\ RegistryCall("set_current_charset",
                    SetterHist(charset, get_current_charset, current))
    /\ current' \in Restored(charset, get_current_charset, current)
    /\ UNCHANGED remote

\* xstrdup (opt.locale) dereferences a null pointer when opt.locale is unset.
set_current_as_locale ==
    /\ RegistryCall("set_current_as_locale",
                    IF opt_locale = NULL THEN <<UB("null_deref", NullPtr)>>
                    ELSE <<>>)
    /\ current' \in (IF opt_locale = NULL THEN RegArgs ELSE {opt_locale})
    /\ UNCHANGED remote

set_remote_charset(charset) ==
    /\ RegistryCall("set_remote_charset",
                    SetterHist(charset, get_remote_charset, remote))
    /\ remote' \in Restored(charset, get_remote_charset, remote)
    /\ UNCHANGED current

\* remote left alone when there is no current encoding to copy
set_remote_as_current_keep ==
    /\ RegistryCall("set_remote_as_current", <<>>)
    /\ remote' = IF current = NULL THEN remote ELSE current
    /\ UNCHANGED current

set_remote_as_current ==
    /\ RegistryCall("set_remote_as_current", <<>>)
    /\ remote' = current
    /\ UNCHANGED current

----------------------------------------------------------------------------
(* Undefined behaviour and the specifications *)

\* The events whose behaviour the C language leaves undefined.
Undefined(e) ==
    \/ e.ev = "ub"
    \/ e.ev = "xfree" /\ ~e.ok
    \/ e.ev = "strcmp" /\ ~e.ok
HasUB == \E i \in 1..Len(hist) : Undefined(hist[i])

\* After undefined behaviour the process may be killed at any point.
Crash ==
    /\ pc # "crashed"
    /\ HasUB
    /\ pc' = "crashed"
    /\ UNCHANGED <<parseVars, cfgVars, regVars, cdVars, frames, str, cd, dc,
                   new, blocks, ret, emitted, hist>>

\* The caller has taken the result of the operation: its locals and the
\* history of the call are gone, the process-wide state stays.
caller_resumes ==
    /\ pc = "returned"
    /\ pc' = "idle"
    /\ frames' = <<>>
    /\ str' = <<>>
    /\ cd' = NoCd
    /\ dc' = NoDc
    /\ new' = WildPtr
    /\ blocks' = <<>>
    /\ ret' = NoRet
    /\ emitted' = <<>>
    /\ hist' = <<>>
    /\ UNCHANGED <<parseVars, cfgVars, regVars, cdVars>>

Init ==
    /\ p_str = NULL
    /\ p_ret = NULL
    /\ p_pc = "off"
    /\ opt_locale \in {NULL, utf8_lc, SJIS, BOGUS}
    /\ opt_encoding_remote \in {NULL, SJIS, BOGUS}
    /\ current = NULL
    /\ remote = NULL
    /\ locale2utf8 = NoCd
    /\ cds = {}
    /\ pc = "idle"
    /\ frames = <<>>
    /\ str = <<>>
    /\ cd = NoCd
    /\ dc = NoDc
    /\ new = WildPtr
    /\ blocks = <<>>
    /\ ret = NoRet
    /\ emitted = <<>>
    /\ hist = <<>>

Next ==
    \/ \E s \in Inputs : locale_to_utf8(s)
    \/ open_locale_to_utf8
    \/ locale_to_utf8_ret
    \/ do_conversion_enter
    \/ \E fault \in -1..MaxLen : do_conversion_step(fault)
    \/ \E s \in Inputs : remote_to_utf8(s)
    \/ remote_to_utf8_ret
    \/ \E s \in Inputs : \E u \in BOOLEAN : idn_encode(s, u)
    \/ idn_encode_resume
    \/ \E c \in RegArgs : set_current_charset(c)
    \/ set_current_as_locale
    \/ \E c \in RegArgs : set_remote_charset(c)
    \/ set_remote_as_current
    \/ caller_resumes
    \/ Crash

Spec == Init /\ [][Next]_vars

\* ---- the encoding registry on its own ----

\* "a b": a name check_encoding_name refuses
BadName == <<97, 32, 98>>
\* What a caller may pass to a setter: a string of its own, or a string one of
\* the getters just returned.
SetterArgs == RegArgs \cup {BadName, get_current_charset, get_remote_charset}

NextRegistry ==
    \/ \E c \in SetterArgs : set_current_charset(c)
    \/ set_current_as_locale
    \/ \E c \in SetterArgs : set_remote_charset(c)
    \/ set_remote_as_current
    \/ caller_resumes
    \/ Crash

SpecRegistry == Init /\ [][NextRegistry]_vars

\* ---- do_conversion on its own ----

\* remote_to_utf8 has opened a descriptor for `current` and is about to call
\* do_conversion on its argument.
LoopInputs == SeqsUpTo(InputBytes, MaxLoopLen)
InitLoop ==
    /\ p_str = NULL
    /\ p_ret = NULL
    /\ p_pc = "off"
    /\ opt_locale = NULL
    /\ opt_encoding_remote = NULL
    /\ current \in {UTF8, SJIS}
    /\ remote = NULL
    /\ locale2utf8 = NoCd
    /\ cd = Cd("remote", current)
    /\ cds = {cd}
    /\ pc = "do_conversion"
    /\ frames = <<"remote_to_utf8">>
    /\ str \in LoopInputs
    /\ dc = NoDc
    /\ new = WildPtr
    /\ blocks = <<>>
    /\ ret = NoRet
    /\ emitted = <<>>
    /\ hist = <<Ev("iconv_open", NullPtr, TRUE, "remote")>>

do_conversion_loop == \E fault \in -1..MaxLoopLen : do_conversion_step(fault)

NextLoop ==
    \/ do_conversion_enter
    \/ do_conversion_loop
    \/ Crash

SpecLoop == InitLoop /\ [][NextLoop]_vars

\* The loop is not suspended for ever: do_conversion runs on its caller's
\* thread and nothing in it waits.
SpecLoopFair ==
    SpecLoop /\ WF_vars(do_conversion_enter) /\ WF_vars(do_conversion_loop)

\* ---- the charset parser on its own ----

\* What follows "charset=": 'a', 'B', space, tab and a non-ASCII byte.
TailChars == {97, 66, 32, 9, 233}
\* "; ", "charset" without '=', and a second " charset=z"
ParseInputs ==
    {NULL} \cup
    {pre \o key \o tail \o post :
        pre  \in {<<>>, <<59, 32>>},
        key  \in {<<>>, CharsetKey, <<67, 72, 65, 82, 83, 69, 84, 61>>,
                  <<99, 104, 97, 114, 115, 101, 116>>},
        tail \in SeqsUpTo(TailChars, MaxTail),
        post \in {<<>>, <<32>> \o CharsetKey \o <<122>>}}

InitParse ==
    /\ p_str \in ParseInputs
    /\ p_ret = NULL
    /\ p_pc = "call"
    /\ opt_locale = NULL
    /\ opt_encoding_remote = NULL
    /\ current = NULL
    /\ remote = NULL
    /\ locale2utf8 = NoCd
    /\ cds = {}
    /\ pc = "off"
    /\ frames = <<>>
    /\ str = <<>>
    /\ cd = NoCd
    /\ dc = NoDc
    /\ new = WildPtr
    /\ blocks = <<>>
    /\ ret = NoRet
    /\ emitted = <<>>
    /\ hist = <<>>

parse_charset_call ==
    /\ p_pc = "call"
    /\ p_ret' = parse_charset(p_str)
    /\ p_pc' = "done"
    /\ UNCHANGED <<p_str, cfgVars, regVars, cdVars, callVars>>

NextParse == parse_charset_call

SpecParse == InitParse /\ [][NextParse]_vars

----------------------------------------------------------------------------
(* Properties *)

InFrames(fn) == \E i \in 1..Len(frames) : frames[i] = fn
HasEvent(e, what) ==
    \E i \in 1..Len(hist) : hist[i].ev = e /\ hist[i].what = what
CountEvents(e, what) ==
    Cardinality({i \in 1..Len(hist) : hist[i].ev = e /\ hist[i].what = what
                                      /\ hist[i].ok})
LiveBlocks == {b \in 1..Len(blocks) : blocks[b].live}

\* do_conversion has run in this call and has returned success / failure
ConvSucceeded == HasEvent("terminate", "")
ConvFailed    == dc.s # 0 /\ ~InFrames("do_conversion") /\ ~ConvSucceeded

RemoteReturned ==
    ret.fn = "remote_to_utf8" /\ pc \in {"returned", "idn_resume"}
LocaleReturned == ret.fn = "locale_to_utf8" /\ pc = "returned"

\* C1: when the first "charset=" of the input is directly followed by
\* whitespace or by the end of the string, parse_charset returns NULL.
C1_EmptyTokenIsNone ==
    LET at == strcasestr(p_str, CharsetKey)
    IN  (/\ p_pc = "done"
         /\ p_str # NULL
         /\ at # 0
         /\ (at + 8 > Len(p_str) \/ c_isspace(p_str[at + 8])))
        => p_ret = NULL

\* C2: whenever do_conversion returns success, the terminator has been
\* stored at offset N of the returned buffer, N the number of bytes emitted
\* during the call.
C2_TerminatorAtTrueEnd ==
    (pc = "dc_ret" /\ ret.ok)
    => \E i \in 1..Len(hist) :
          /\ hist[i].ev = "terminate"
          /\ hist[i].p = Ptr(ret.ptr.blk, Len(emitted))

\* C3: a growth carries over exactly the bytes emitted so far and writing
\* resumes right after them, so that a successful conversion that grew its
\* buffer returns the emitted bytes, all of them and nothing else.
C3_GrowthKeepsOutput ==
    /\ (pc = "dc_loop" /\ dc.tooshort > 0 /\ hist[Len(hist)].ev = "xfree")
       => /\ dc.done = Len(emitted)
          /\ new = Ptr(dc.s, Len(emitted))
          /\ SubSeq(blocks[dc.s].cells, 1, Len(emitted)) = emitted
    /\ (pc = "dc_ret" /\ ret.ok /\ dc.tooshort > 0)
       => CStrAt(ret.ptr, blocks) = emitted

\* C4: remote_to_utf8 returns true exactly when a source encoding was
\* available, the descriptor opened, the converter succeeded and the
\* converted string differs from the input; when the converted string
\* equals the input it returns false and the output has been released.
C4_TrueIffConverted ==
    RemoteReturned
    => /\ ret.ok <=> (/\ SourceEncoding # NULL
                      /\ IconvSupports(SourceEncoding)
                      /\ ConvSucceeded
                      /\ emitted # str)
       /\ (ConvSucceeded /\ emitted = str)
          => (~ret.ok /\ LiveBlocks = {})

\* C5: whatever remote_to_utf8 releases is the base address of a live block
\* of this call, and what it compares with the input is a terminated string.
C5_ReleasesOnlyLiveBase ==
    InFrames("remote_to_utf8") \/ RemoteReturned
    => \A i \in 1..Len(hist) :
          hist[i].ev \in {"xfree", "strcmp"} => hist[i].ok

\* C6: once a conversion has failed, no block allocated by it is live when
\* do_conversion, remote_to_utf8 or locale_to_utf8 has returned.
C6_FailedConversionFreesAll ==
    (ConvFailed /\ pc \in {"dc_ret", "returned", "idn_resume"})
    => LiveBlocks = {}

\* C7: locale_to_utf8 never reads the unset opt.locale.
C7_UnsetLocaleNotRead ==
    (InFrames("locale_to_utf8") \/ LocaleReturned)
    => ~HasEvent("ub", "null_deref")

\* C8: locale_to_utf8 returns its argument, with no block left allocated,
\* when opt.locale was "utf-8" at the call (the descriptor then neither
\* opened nor used),
\* when the descriptor cannot be opened and when the converter fails; it
\* returns a new string only when the converter succeeded.
C8_LocalePassthrough ==
    LocaleReturned
    => /\ (/\ opt_locale # NULL
           /\ strcaseeq(opt_locale, utf8_lc)
           /\ ~HasEvent("ub", "null_deref"))
          => /\ ret.ptr = StrPtr
             /\ blocks = <<>>
             /\ ~HasEvent("iconv_open", "locale")
             /\ cd = NoCd
       /\ (dc.s = 0) => (ret.ptr = StrPtr /\ blocks = <<>>)
       /\ ConvFailed => (ret.ptr = StrPtr /\ LiveBlocks = {})
       /\ (ret.ptr # StrPtr) => (ConvSucceeded /\ ret.ptr = Ptr(dc.s, 0))

\* This step opens the locale descriptor (or tries to).
LocaleOpenStep ==
    /\ Len(hist') = Len(hist) + 1
    /\ hist'[Len(hist')].ev = "iconv_open"
    /\ hist'[Len(hist')].what = "locale"

\* C9: once the locale descriptor is open no step opens it again, closes or
\* replaces it, and every conversion of locale_to_utf8 uses it; a call that
\* finds no descriptor and has a locale tries to open one.
C9_LocaleOpenedOnce ==
    [][/\ locale2utf8 # NoCd
          => /\ locale2utf8' = locale2utf8
             /\ locale2utf8 \in cds'
             /\ ~LocaleOpenStep
       /\ (pc' = "do_conversion" /\ frames' = <<"locale_to_utf8">>)
          => (cd' = locale2utf8' /\ cd' \in cds')
       /\ (pc = "open_locale" /\ pc' # "crashed" /\ locale2utf8 = NoCd
           /\ opt_locale' # NULL)
          => LocaleOpenStep]_vars

\* A call of locale_to_utf8 that converts with a descriptor opened by an
\* earlier call.
C9_Witness ==
    /\ pc = "do_conversion"
    /\ frames = <<"locale_to_utf8">>
    /\ cd = locale2utf8
    /\ ~HasEvent("iconv_open", "locale")

\* C10: between operations only the locale descriptor is open; a descriptor
\* opened by remote_to_utf8 has been closed exactly once when it returns,
\* and none is opened when no source encoding is known.
C10_OnlyLocaleStaysOpen ==
    /\ pc \in {"idle", "returned", "idn_resume"} => cds \subseteq {locale2utf8}
    /\ RemoteReturned
       => /\ CountEvents("iconv_close", "remote")
               = CountEvents("iconv_open", "remote")
          /\ CountEvents("iconv_open", "remote") <= 1
          /\ SourceEncoding = NULL
             => ~HasEvent("iconv_open", "remote")

\* remote_to_utf8 has returned after a failed conversion, its descriptor
\* closed.
C10_Witness ==
    /\ RemoteReturned
    /\ ConvFailed
    /\ CountEvents("iconv_close", "remote") = 1

----------------------------------------------------------------------------
(* Registry setters (SpecRegistry) *)

RegistryReturns(fn) == pc = "idle" /\ pc' = "returned" /\ ret'.fn = fn

\* C11: set_remote_as_current leaves in remote the content current had when it
\* was called (nothing when current was unset), whatever remote held before,
\* and leaves current alone; a set_current_charset afterwards does not change
\* remote, the copy being independent.
C11_RemoteCopiesCurrent ==
    [][ /\ RegistryReturns("set_remote_as_current")
            => ArgString(get_remote_charset)' = current /\ current' = current
        /\ RegistryReturns("set_current_charset") => remote' = remote ]_vars
C11_Witness ==
    /\ pc = "returned"
    /\ ret.fn = "set_remote_as_current"
    /\ remote = UTF8
    /\ current = UTF8
    /\ hist = <<>>

\* C12: in every reachable state of the registry, whatever the setters were
\* called with, a stored name (remote, current) holds only ASCII characters
\* that are not whitespace, as check_encoding_name accepts them.
C12_StoredNamesValid ==
    \A name \in {current, remote} :
        name # NULL => check_encoding_name(name)

\* C19: a setter may be given any pointer its caller holds, the one a getter
\* just returned included, and never reads a string it has released: after
\* set_current_charset (get_current_charset ()) or
\* set_remote_charset (get_remote_charset ()) the field holds what it held.
C19_NoReadAfterRelease ==
    ret.fn \in {"set_current_charset", "set_remote_charset"}
        => /\ ~HasEvent("ub", "use_after_free")
           /\ Stale \notin {current, remote}

----------------------------------------------------------------------------
(* Charset parser (SpecParse) *)

\* C13: parse_charset returns nothing when the string is absent or empty, has
\* no "charset=" in any letter case, or the candidate token holds a non-ASCII
\* character; otherwise it returns exactly the characters between the end of
\* the first "charset=" and the first whitespace after it (or the end of the
\* string), so the token never holds whitespace.
C13_ParseResult ==
    p_pc = "done" =>
        LET s   == p_str
            occ == {i \in 1..(Len(s) - 7) :
                       \A k \in 1..8 : c_tolower(s[i + k - 1]) = CharsetKey[k]}
        IN  IF s = NULL \/ s = <<>> \/ occ = {} THEN p_ret = NULL
            ELSE LET first == CHOOSE i \in occ : \A j \in occ : i <= j
                     rest  == SubSeq(s, first + 8, Len(s))
                     n     == CHOOSE m \in 0..Len(rest) :
                                  /\ \A k \in 1..m : ~c_isspace(rest[k])
                                  /\ m < Len(rest) => c_isspace(rest[m + 1])
                     token == SubSeq(rest, 1, n)
                 IN  IF \E k \in 1..n : ~c_isascii(token[k])
                     THEN p_ret = NULL
                     ELSE /\ p_ret = token
                          /\ \A k \in 1..Len(p_ret) : ~c_isspace(p_ret[k])
\* "; charset=a<tab> charset=z" gave "a".
C13_Witness ==
    /\ p_pc = "done"
    /\ p_str = <<59, 32>> \o CharsetKey \o <<97, 9, 32>> \o CharsetKey \o <<122>>
    /\ p_ret = <<97>>

----------------------------------------------------------------------------
(* do_conversion (SpecLoop, SpecLoopFair) *)

\* What comes out of a string when its valid characters are transcoded and
\* its invalid bytes copied.
RECURSIVE PassedThrough(_, _)
PassedThrough(src, s) ==
    IF s = <<>> THEN <<>>
    ELSE (IF Transcode(src, Head(s)) = <<>> THEN <<Head(s)>>
          ELSE Transcode(src, Head(s))) \o PassedThrough(src, Tail(s))
InvalidBytes(src, s) == {i \in 1..Len(s) : Transcode(src, s[i]) = <<>>}
LoopStep(br) ==
    /\ pc = "dc_loop"
    /\ CASE br = "passthrough" -> dc'.invalid = dc.invalid + 1
         [] br = "grow" -> dc'.tooshort = dc.tooshort + 1
         [] OTHER -> FALSE

\* C14: each time iconv reports an invalid or incomplete sequence exactly one
\* input byte, the offending one, is copied unchanged to the output, both
\* cursors move on by one and the loop goes on; so a converted string holds
\* the output of its valid parts plus one byte per invalid byte, each at its
\* place among the converted output.
C14_InvalidBytePassedThrough ==
    [][ /\ LoopStep("passthrough") =>
              LET k == dc'.inpos
                  before == SubSeq(str, dc.inpos + 1, k - 1)
              IN  /\ k > dc.inpos
                  /\ Transcode(cd.src, str[k]) = <<>>
                  /\ InvalidBytes(cd.src, before) = {}
                  /\ emitted' = emitted \o PassedThrough(cd.src, before)
                                        \o <<str[k]>>
                  /\ dc'.inlen = dc.inlen - (k - dc.inpos)
                  /\ new'.blk = new.blk
                  /\ new'.off = new.off + (Len(emitted') - Len(emitted))
                  /\ new'.off <= Len(blocks'[new'.blk].cells)
                         => blocks'[new'.blk].cells[new'.off] = str[k]
                  /\ pc' = "dc_loop"
        /\ (pc' = "dc_ret" /\ ret'.ok /\ dc'.invalid >= 1) =>
              /\ dc'.invalid = Cardinality(InvalidBytes(cd.src, str))
              /\ CStrAt(ret'.ptr, blocks') = PassedThrough(cd.src, str) ]_vars
\* The part of C14 about one pass through the branch, and about the bytes in
\* the order they were written.
C14_PerStep ==
    [][ /\ LoopStep("passthrough") =>
              /\ Transcode(cd.src, str[dc'.inpos]) = <<>>
              /\ emitted' = emitted
                    \o PassedThrough(cd.src,
                                     SubSeq(str, dc.inpos + 1, dc'.inpos - 1))
                    \o <<str[dc'.inpos]>>
              /\ new'.off = new.off + (Len(emitted') - Len(emitted))
        /\ (pc' = "dc_ret" /\ ret'.ok) =>
              emitted' = PassedThrough(cd.src, str) ]_vars

\* C16: do_conversion returns false only after iconv has failed with an
\* error other than EINVAL, EILSEQ and E2BIG: whatever run of consumed,
\* invalid and buffer-full outcomes it meets, it returns true.
C16_FailsOnlyOnOtherError ==
    (ret.fn = "do_conversion" /\ ~ret.ok) <=> HasEvent("errno", "EOTHER")
\* a conversion that met an invalid byte and a full buffer, and succeeded
C16_Witness ==
    /\ pc = "dc_ret"
    /\ ret.ok
    /\ dc.invalid >= 1
    /\ dc.tooshort >= 1
    /\ ~HasEvent("errno", "EOTHER")

\* C17: do_conversion comes to an end on every input: a pass through the
\* EINVAL/EILSEQ branch shortens the input that remains, a pass through the
\* E2BIG branch leaves it as it is and enlarges the room offered to the next
\* call of iconv, so no run of the two goes on for ever.
C17_LoopEnds ==
    /\ [][ /\ LoopStep("passthrough") => dc'.inlen < dc.inlen
           /\ LoopStep("grow") =>
                 dc'.inlen <= dc.inlen /\ dc'.outlen > dc.outlen ]_vars
    /\ (pc \in {"do_conversion", "dc_loop"}) ~> (pc \in {"dc_ret", "crashed"})
C17_Witness ==
    /\ pc = "dc_ret"
    /\ dc.invalid >= 1
    /\ dc.tooshort >= 1
    /\ Len(str) = MaxLoopLen

\* C18: in every state of do_conversion what is written, or offered to iconv
\* for writing, lies inside the buffer of capacity + 1 bytes: the offset of
\* the write cursor plus the room passed to iconv is at most the capacity,
\* the room never wraps below zero, and the terminator goes to an offset
\* between 0 and the capacity.
C18_WritesInsideBuffer ==
    /\ pc = "dc_loop" =>
          /\ new.blk = dc.s
          /\ new.off + dc.outlen <= dc.len
          /\ Len(blocks[dc.s].cells) = dc.len + 1
    /\ ~HasEvent("ub", "oob_write")
    /\ \A i \in 1..Len(hist) :
          hist[i].ev = "terminate" => hist[i].p.off \in 0..dc.len

----------------------------------------------------------------------------
(* remote_to_utf8 and idn_encode (Spec) *)

\* C15: remote_to_utf8 converts from the override opt.encoding_remote when it
\* is set and from the registry's `current` otherwise, whatever `remote`
\* holds; with both unset it returns false without opening a descriptor and
\* without storing through its output pointer.
C15_SourceIsOverrideElseCurrent ==
    LET returned == ret.fn = "remote_to_utf8" /\ pc \in {"returned", "idn_resume"}
    IN  /\ cd.kind = "remote" =>
              /\ opt_encoding_remote # NULL => cd.src = opt_encoding_remote
              /\ opt_encoding_remote = NULL =>
                    current # NULL /\ cd.src = current
        /\ (returned /\ opt_encoding_remote = NULL /\ current = NULL) =>
              /\ ~ret.ok
              /\ hist = <<>>
              /\ ret.ptr = WildPtr
              /\ new = WildPtr
              /\ blocks = <<>>
              /\ cd = NoCd
        /\ (returned /\ (opt_encoding_remote # NULL \/ current # NULL)) =>
              HasEvent("iconv_open", "remote")
\* a conversion from `current` while `remote` names another encoding
C15_Witness ==
    /\ cd.kind = "remote"
    /\ pc = "returned"
    /\ ret.fn = "remote_to_utf8"
    /\ opt_encoding_remote = NULL
    /\ current = SJIS
    /\ remote = UTF8
    /\ cd.src = SJIS
    /\ ret.ok

\* C20: when idn_encode returns after a call with utf8_encoded false, the
\* only block allocated during the call that is still live is the ASCII
\* string it returns, if it returns one: the UTF-8 string remote_to_utf8
\* produced has been released, whether idna_to_ascii_8z succeeded or not.
C20_IntermediateReleased ==
    (pc = "returned" /\ ret.fn = "idn_encode" /\ ConvSucceeded) =>
        LiveBlocks \subseteq (IF ret.ok THEN {ret.ptr.blk} ELSE {})

====
